---- MODULE Spec2Model ----
(***************************************************************************)
(* Canvas -> Google Calendar sync (src/calender_sync.py).                  *)
(*                                                                         *)
(* The model follows main(): authenticate (get_google_creds), fetch the    *)
(* assignments (get_canvas_assignments), then one call of                  *)
(* add_event_to_google_calendar per fetched item.  The Google calendar,    *)
(* token.json and credentials.json persist from one run of the script to   *)
(* the next; everything else is local to a run.                            *)
(*                                                                         *)
(* Python strings are sequences of atoms (one-character strings for ids),  *)
(* JSON values are tagged records, ISO-8601 timestamps are records of      *)
(* their day, hour and UTC-offset suffix.                                  *)
(***************************************************************************)
EXTENDS Integers, Sequences, FiniteSets, TLC

VARIABLES
    pc,          \* position of the script: idle, auth, fetch, loop, done, crashed
    run,         \* number of times the script has been launched
    tokenFile,   \* token.json: absent, valid, expired (refreshable), invalid
    credsFile,   \* credentials.json exists
    tokenWrites, \* writes of token.json in this run
    fetchCalls,  \* GET requests issued to Canvas in this run
    assignments, \* main's local list `assignments`
    idx,         \* position of the for loop in `assignments` (1-based)
    calendar,    \* the events of the Google calendar
    calls,       \* calendar API calls issued in this run, in order
    outcome,     \* per processed item of this run, what the reconciler did
    log,         \* messages of main/get_google_creds printed in this run
    response,    \* how the GET of this run ended ("" before the GET)
    calendar0    \* the calendar as it was when this run was launched

vars == <<pc, run, tokenFile, credsFile, tokenWrites, fetchCalls,
          assignments, idx, calendar, calls, outcome, log, response, calendar0>>

(***************************************************************************)
(* Bounds of the model.                                                    *)
(***************************************************************************)
MaxRecords == 2
MaxRuns == 2

(***************************************************************************)
(* JSON values.                                                            *)
(***************************************************************************)
Missing == [kind |-> "missing"]            \* the key is not in the object
JNull == [kind |-> "null"]                 \* Python None
JInt(n) == [kind |-> "int", n |-> n]
JStr(s) == [kind |-> "str", s |-> s]       \* s: sequence of atoms
JTime(d, h, z) == [kind |-> "iso", day |-> d, hour |-> h, tz |-> z]

\* dict.get(key, default): the default only when the key is missing.
Get(obj, key, default) == IF obj[key] = Missing THEN default ELSE obj[key]

\* Python truthiness of a JSON value, as used by `if not due_at`.
Truthy(v) ==
    CASE v.kind = "null" -> FALSE
      [] v.kind = "str" -> v.s # <<>>
      [] v.kind = "int" -> v.n # 0
      [] OTHER -> TRUE

DigitChar == <<"0", "1", "2", "3", "4", "5", "6", "7", "8", "9">>

RECURSIVE Decimal(_)
Decimal(n) ==
    IF n < 10 THEN <<DigitChar[n + 1]>>
    ELSE Decimal(n \div 10) \o <<DigitChar[(n % 10) + 1]>>

\* str(v) as an f-string renders it.
PyStr(v) ==
    CASE v.kind = "null" -> <<"N", "o", "n", "e">>
      [] v.kind = "int" -> Decimal(v.n)
      [] v.kind = "str" -> v.s
      [] OTHER -> <<"?">>

(***************************************************************************)
(* datetime.  Day 1 is datetime.min's day; an aware datetime keeps its     *)
(* offset (in hours) and arithmetic works on the wall-clock fields.        *)
(***************************************************************************)
\* due_at.replace('Z', '+00:00')
ReplaceZ(v) ==
    IF v.kind = "iso" /\ v.tz = "Z" THEN JTime(v.day, v.hour, "+00:00") ELSE v

OffsetOf(z) == IF z = "-05:00" THEN 0 - 5 ELSE 0

\* datetime.fromisoformat: a datetime, or ValueError.
FromIsoFormat(v) ==
    IF v.kind = "iso" /\ v.tz \in {"+00:00", "-05:00"}
    THEN [ok |-> TRUE, day |-> v.day, hour |-> v.hour, off |-> OffsetOf(v.tz)]
    ELSE [ok |-> FALSE, day |-> 0, hour |-> 0, off |-> 0]

\* dt - datetime.timedelta(hours=1): borrows from the day; OverflowError
\* below datetime.min.
MinusOneHour(dt) ==
    IF dt.hour > 0
    THEN [ok |-> TRUE, day |-> dt.day, hour |-> dt.hour - 1, off |-> dt.off]
    ELSE IF dt.day > 1
    THEN [ok |-> TRUE, day |-> dt.day - 1, hour |-> 23, off |-> dt.off]
    ELSE [ok |-> FALSE, day |-> 0, hour |-> 0, off |-> 0]

\* dt.isoformat() of an aware datetime.
IsoFormat(dt) ==
    JTime(dt.day, dt.hour, IF dt.off = 0 THEN "+00:00" ELSE "-05:00")

(***************************************************************************)
(* add_event_to_google_calendar, piece by piece.                           *)
(***************************************************************************)
Item(i, n, d) == [kind |-> "object", id |-> i, name |-> n, due_at |-> d]
Scalar == [kind |-> "scalar"]      \* a JSON value that is not an object

\* name = assignment.get('name', 'Untitled Assignment')
NameOf(assignment) == Get(assignment, "name", JStr(<<"Untitled Assignment">>))

\* (a variant that defaults a missing due date instead of leaving it None)
DueAt_Default(assignment) == Get(assignment, "due_at", JTime(2, 5, "Z"))

\* due_at = assignment.get('due_at')
DueAt(assignment) == Get(assignment, "due_at", JNull)

\* if not due_at: return
Skips(due_at) == ~Truthy(due_at)

CanvasTag == <<"c", "a", "n", "v", "a", "s">>

\* (a variant that also keys the event on the due date)
EventId_WithDue(assignment) ==
    CanvasTag \o PyStr(Get(assignment, "id", JNull))
              \o (IF DueAt(assignment).kind = "iso"
                  THEN Decimal(DueAt(assignment).hour) ELSE <<>>)

\* (a variant that reads a key the records do not have)
EventId_WrongKey(assignment) == CanvasTag \o PyStr(JNull)

\* 'id': f"canvas{assignment.get('id')}"
EventId(assignment) == CanvasTag \o PyStr(Get(assignment, "id", JNull))

\* (a variant that adds the hour instead of subtracting it)
StartOf_Plus(due_datetime) ==
    [ok |-> due_datetime.ok, day |-> due_datetime.day,
     hour |-> due_datetime.hour + 1, off |-> due_datetime.off]

\* the start of the event: due_datetime - datetime.timedelta(hours=1)
StartOf(due_datetime) == MinusOneHour(due_datetime)

\* event_body, given the parsed due date and the computed start
EventBody(assignment, due_datetime, start_datetime) ==
    [id |-> EventId(assignment),
     summary |-> <<"Assignment: ">> \o PyStr(NameOf(assignment)),
     start |-> [dateTime |-> IsoFormat(start_datetime), timeZone |-> "UTC"],
     end |-> [dateTime |-> IsoFormat(due_datetime), timeZone |-> "UTC"]]

\* service.events().insert(...).execute(): the service refuses an id it
\* already holds (409, "The requested identifier already exists."); any other
\* failure (auth, network, bad request) is `fault`.
InsertResult(cal, body, fault) ==
    IF fault THEN "error"
    ELSE IF \E e \in cal : e.id = body.id THEN "conflict"
    ELSE "ok"

\* (a variant that clears the refused id, as a delete-and-recreate would)
CalendarAfter_Delete(cal, body, res) ==
    IF res = "ok" THEN cal \cup {body}
    ELSE {e \in cal : e.id # body.id}

\* the calendar after the try/except around insert: a refused or failed
\* insert changes nothing, and the except branch only prints.
CalendarAfter(cal, body, res) ==
    IF res = "ok" THEN cal \cup {body} ELSE cal

\* (a variant whose except branch lets every error but the conflict escape)
Printed_Reraise(res) ==
    CASE res = "ok" -> "added"
      [] res = "conflict" -> "exists"
      [] OTHER -> "raised"

\* what the try/except prints for the record
Printed(res) ==
    CASE res = "ok" -> "added"          \* "Successfully added/updated event"
      [] res = "conflict" -> "exists"   \* "Event ... already exists. Skipping."
      [] OTHER -> "error"               \* "An error occurred while adding"

\* the calendar API calls the try block issues for the body
CallsFor(body, res) == <<[op |-> "insert", body |-> body]>>

Raised(cal) == [outcome |-> "raised", calls |-> <<>>, calendar |-> cal]

\* One call of add_event_to_google_calendar(service, assignment).
AddEventResult(cal, assignment, fault) ==
    IF assignment.kind # "object" THEN Raised(cal)      \* AttributeError
    ELSE IF Skips(DueAt(assignment))
    THEN [outcome |-> "skipped", calls |-> <<>>, calendar |-> cal]
    ELSE LET due_datetime == FromIsoFormat(ReplaceZ(DueAt(assignment)))
             start_datetime == StartOf(due_datetime)
         IN  IF ~due_datetime.ok THEN Raised(cal)       \* ValueError
             ELSE IF ~start_datetime.ok THEN Raised(cal) \* OverflowError
             ELSE LET body == EventBody(assignment, due_datetime, start_datetime)
                      res == InsertResult(cal, body, fault)
                  IN  [outcome |-> Printed(res),
                       calls |-> CallsFor(body, res),
                       calendar |-> CalendarAfter(cal, body, res)]

(***************************************************************************)
(* get_google_creds.                                                       *)
(***************************************************************************)
\* (a variant that saves the token only after the interactive flow, not
\* after a refresh)
GetGoogleCreds_RefreshNotSaved(token, hasCredsFile, refreshOk, flowOk) ==
    IF token = "valid"
    THEN [result |-> "creds", token |-> token, wrote |-> FALSE]
    ELSE IF token = "expired"
    THEN IF refreshOk
         THEN [result |-> "creds", token |-> token, wrote |-> FALSE]
         ELSE [result |-> "raise", token |-> token, wrote |-> FALSE]
    ELSE IF ~hasCredsFile
    THEN [result |-> "none", token |-> token, wrote |-> FALSE]
    ELSE IF flowOk
    THEN [result |-> "creds", token |-> "valid", wrote |-> TRUE]
    ELSE [result |-> "raise", token |-> token, wrote |-> FALSE]

\* result: "creds", "none" (return None) or "raise" (refresh or the
\* interactive flow raised); token: token.json afterwards; wrote: whether
\* token.json was written.
GetGoogleCreds(token, hasCredsFile, refreshOk, flowOk) ==
    IF token = "valid"
    THEN [result |-> "creds", token |-> token, wrote |-> FALSE]
    ELSE IF token = "expired"
    THEN IF refreshOk
         THEN [result |-> "creds", token |-> "valid", wrote |-> TRUE]
         ELSE [result |-> "raise", token |-> token, wrote |-> FALSE]
    ELSE IF ~hasCredsFile
    THEN [result |-> "none", token |-> token, wrote |-> FALSE]
    ELSE IF flowOk
    THEN [result |-> "creds", token |-> "valid", wrote |-> TRUE]
    ELSE [result |-> "raise", token |-> token, wrote |-> FALSE]

(***************************************************************************)
(* get_canvas_assignments.                                                 *)
(***************************************************************************)
\* resp: how the GET ended.  "ok": the body parses to `body`.
\* "network_error", "http_error": requests.get / raise_for_status raise a
\* RequestException.  "invalid_json": response.json() raises; whether that
\* error is a RequestException (and so is caught) depends on the installed
\* requests release, hence `decodeErrCaught`.
GetCanvasAssignments(resp, body, decodeErrCaught) ==
    IF resp = "ok"
    THEN [raised |-> FALSE, value |-> body, printed |-> FALSE]
    ELSE IF resp = "invalid_json" /\ ~decodeErrCaught
    THEN [raised |-> TRUE, value |-> <<>>, printed |-> FALSE]
    ELSE [raised |-> FALSE, value |-> <<>>, printed |-> TRUE]

Responses == {"ok", "network_error", "http_error", "invalid_json"}

(***************************************************************************)
(* The inputs.                                                             *)
(***************************************************************************)
Essay == JStr(<<"Essay 1">>)

SyncIds == {JInt(7), JStr(<<"A", "-", "1">>)}
SyncDues == {Missing, JTime(2, 5, "Z"), JTime(3, 0, "Z")}
SyncRecords == {Item(i, Essay, d) : i \in SyncIds, d \in SyncDues}
SyncItems == SyncRecords \cup {Scalar}

SeqsUpTo(S, n) == UNION {[1..k -> S] : k \in 0..n}

\* what the Canvas endpoint can answer with
Bodies == SeqsUpTo(SyncItems, MaxRecords)

TokenStates == {"absent", "valid", "expired", "invalid"}

(***************************************************************************)
(* The script.                                                             *)
(***************************************************************************)
Init ==
    /\ pc = "idle"
    /\ run = 0
    /\ tokenFile \in TokenStates
    /\ credsFile \in BOOLEAN
    /\ tokenWrites = 0
    /\ fetchCalls = 0
    /\ assignments = <<>>
    /\ idx = 1
    /\ calendar = {}
    /\ calls = <<>>
    /\ outcome = <<>>
    /\ log = {}
    /\ response = ""
    /\ calendar0 = {}

\* `python calender_sync.py`: a new process
Launch ==
    /\ pc \in {"idle", "done", "crashed"}
    /\ run < MaxRuns
    /\ pc' = "auth"
    /\ run' = run + 1
    /\ tokenWrites' = 0
    /\ fetchCalls' = 0
    /\ assignments' = <<>>
    /\ idx' = 1
    /\ calls' = <<>>
    /\ outcome' = <<>>
    /\ log' = {}
    /\ response' = ""
    /\ calendar0' = calendar
    /\ UNCHANGED <<tokenFile, credsFile, calendar>>

\* (a variant of main without the `if not creds: return`)
AfterAuth_NoExit(result) ==
    IF result = "raise" THEN "crashed" ELSE "fetch"

\* where main goes after get_google_creds: on with the run, out through
\* `if not creds: return`, or out through the exception
AfterAuth(result) ==
    CASE result = "creds" -> "fetch"
      [] result = "none" -> "done"
      [] OTHER -> "crashed"

\* main, "1. Authenticate with Google"
Authenticate(refreshOk, flowOk) ==
    /\ pc = "auth"
    /\ LET g == GetGoogleCreds(tokenFile, credsFile, refreshOk, flowOk)
       IN  /\ tokenFile' = g.token
           /\ tokenWrites' = tokenWrites + (IF g.wrote THEN 1 ELSE 0)
           /\ pc' = AfterAuth(g.result)
           /\ log' = CASE g.result = "creds" -> log \cup {"authenticated"}
                       [] g.result = "none" ->
                            log \cup {"credentials.json not found",
                                      "could not authenticate"}
                       [] OTHER -> log
    /\ UNCHANGED <<run, credsFile, fetchCalls, assignments, idx,
                   calendar, calls, outcome, response, calendar0>>

\* main, "2. Get Canvas Assignments"; `body` is what the endpoint answers
\* with when the GET succeeds.
Fetch(resp, body, decodeErrCaught) ==
    /\ pc = "fetch"
    /\ fetchCalls' = fetchCalls + 1
    /\ response' = resp
    /\ LET f == GetCanvasAssignments(resp, body, decodeErrCaught)
       IN  /\ assignments' = f.value
           /\ pc' = IF f.raised THEN "crashed"
                    ELSE IF f.value = <<>> THEN "done"
                    ELSE "loop"
           /\ log' = log \cup (IF f.printed THEN {"fetch error"} ELSE {})
                         \cup (IF ~f.raised /\ f.value = <<>>
                               THEN {"no assignments"} ELSE {})
    /\ UNCHANGED <<run, tokenFile, credsFile, tokenWrites, idx,
                   calendar, calls, outcome, calendar0>>

\* (a variant of the loop that does not move on to the next item)
NextIndex_Stay(i) == i

\* `for assignment in assignments`: the item after item i
NextIndex(i) == i + 1

\* main, "3. Add assignments to Google Calendar": one iteration of the loop
AddEvent(fault) ==
    /\ pc = "loop"
    /\ idx <= Len(assignments)
    /\ LET r == AddEventResult(calendar, assignments[idx], fault)
       IN  /\ calendar' = r.calendar
           /\ calls' = calls \o [k \in 1..Len(r.calls) |->
                                   [op |-> r.calls[k].op,
                                    body |-> r.calls[k].body,
                                    item |-> idx]]
           /\ outcome' = Append(outcome, r.outcome)
           /\ IF r.outcome = "raised"
              THEN /\ pc' = "crashed"
                   /\ UNCHANGED <<idx, log>>
              ELSE /\ idx' = NextIndex(idx)
                   /\ pc' = IF idx = Len(assignments) THEN "done" ELSE "loop"
                   /\ log' = IF idx = Len(assignments)
                             THEN log \cup {"complete"} ELSE log
    /\ UNCHANGED <<run, tokenFile, credsFile, tokenWrites, fetchCalls,
                   assignments, response, calendar0>>

Next ==
    \/ Launch
    \/ \E refreshOk, flowOk \in BOOLEAN : Authenticate(refreshOk, flowOk)
    \/ \E body \in Bodies : Fetch("ok", body, TRUE)
    \/ \E resp \in Responses \ {"ok"}, caught \in BOOLEAN : Fetch(resp, <<>>, caught)
    \/ \E fault \in BOOLEAN : AddEvent(fault)

Spec == Init /\ [][Next]_vars

(***************************************************************************)
(* The reconciler on its own: the loop of main over every pair of records  *)
(* drawn from a wider set of ids, names and due dates, in the state main   *)
(* is in once the pair has been fetched.                                   *)
(***************************************************************************)
PairIds == {Missing, JInt(7), JInt(12), JStr(<<"7">>), JStr(<<"A", "-", "1">>),
            JStr(<<"N", "o", "n", "e">>)}
PairNames == {Missing, Essay}
PairDues == {Missing, JNull, JStr(<<>>), JStr(<<"soon">>),
             JTime(1, 0, "Z"), JTime(2, 0, "Z"), JTime(2, 5, "Z"),
             JTime(2, 5, "-05:00")}
PairRecords == {Item(i, n, d) : i \in PairIds, n \in PairNames, d \in PairDues}

InitPair ==
    /\ pc = "loop"
    /\ run = 1
    /\ tokenFile = "valid"
    /\ credsFile = TRUE
    /\ tokenWrites = 0
    /\ fetchCalls = 1
    /\ assignments \in [1..2 -> PairRecords]
    /\ idx = 1
    /\ calendar = {}
    /\ calls = <<>>
    /\ outcome = <<>>
    /\ log = {"authenticated"}
    /\ response = "ok"
    /\ calendar0 = {}

NextPair == \E fault \in BOOLEAN : AddEvent(fault)

SpecPair == InitPair /\ [][NextPair]_vars

(***************************************************************************)
(* Properties.                                                             *)
(***************************************************************************)
\* a fetched item that is a record with a well-formed due date
Dated(a) == a.kind = "object" /\ a.due_at.kind = "iso"

\* a record whose due_at is missing, null or empty
Absent(a) == a.kind = "object" /\ a.due_at \in {Missing, JNull, JStr(<<>>)}

\* the event the reconciler builds for a dated record
BodyOf(a) ==
    LET due_datetime == FromIsoFormat(ReplaceZ(a.due_at))
    IN  EventBody(a, due_datetime, StartOf(due_datetime))

CallsOfItem(i) == {k \in 1..Len(calls) : calls[k].item = i}

\* C1 (as claimed): a dated record whose event is not in the calendar is
\* reported as created on its first sync, and when the next run finds the
\* event it wrote for the unchanged record, it reports the record as updated
\* (the calendar service not failing).
C1_CreatedThenUpdated ==
    \A i \in 1..Len(outcome) :
        LET a == assignments[i]
        IN  (Dated(a) /\ outcome[i] \notin {"error", "raised"}) =>
              /\ ( /\ \A e \in calendar0 : e.id # EventId(a)
                   /\ \A j \in 1..(i - 1) :
                        ~(Dated(assignments[j])
                          /\ EventId(assignments[j]) = EventId(a)) )
                 => outcome[i] = "added"
              /\ BodyOf(a) \in calendar0 => outcome[i] = "updated"

KnownIds == SyncIds \cup PairIds

\* the records that carry source record id `sid`
RecordsWithId(sid) ==
    {Item(sid, n, d) : n \in PairNames, d \in SyncDues \cup PairDues}

\* the events whose id is derived from source record id `sid`
EventsOf(sid) ==
    {e \in calendar : \E r \in RecordsWithId(sid) : e.id = EventId(r)}

\* C2: after any number of runs over any fetched lists, the calendar holds at
\* most one event whose event_id is derived from a given source record id.
C2_AtMostOneEventPerRecord ==
    \A sid \in KnownIds : Cardinality(EventsOf(sid)) <= 1

\* C2 witness: a second run met the event of the first run, and the calendar
\* holds the events of two records.
C2_Witness ==
    /\ run = 2
    /\ Cardinality(calendar) = 2
    /\ \E i \in 1..Len(outcome) : outcome[i] = "exists"

\* C3 (as claimed): when the insert of a record is refused because the event
\* exists, an update of the same event_id with the new body is issued, and the
\* calendar event then has the start and end computed from the record's
\* current due date.
C3_ConflictIssuesUpdate ==
    \A i \in 1..Len(outcome) :
        outcome[i] = "exists" =>
            /\ \E k \in CallsOfItem(i) :
                 /\ calls[k].op = "update"
                 /\ calls[k].body = BodyOf(assignments[i])
            /\ i = Len(outcome) =>
                 \E e \in calendar :
                    /\ e.id = EventId(assignments[i])
                    /\ e.start = BodyOf(assignments[i]).start
                    /\ e.end = BodyOf(assignments[i]).end

\* C4: processing a record whose due_at is missing, null or empty issues no
\* calendar call, leaves the calendar as it was, and is a skip, not an error.
C4_NoDueNoWrite ==
    [][ (pc = "loop" /\ idx <= Len(assignments) /\ Absent(assignments[idx])) =>
          /\ calls' = calls
          /\ calendar' = calendar
          /\ outcome' = Append(outcome, "skipped")
          /\ pc' # "crashed" ]_vars

\* C4 witness: a record without due date was skipped after an event had been
\* written, and no call was issued for it.
C4_Witness ==
    /\ Len(outcome) = 2
    /\ outcome[1] = "added"
    /\ Absent(assignments[2]) /\ outcome[2] = "skipped"
    /\ CallsOfItem(2) = {}
    /\ Cardinality(calendar) = 1

\* the insert issued for item i did not add the event
InsertFailed(i) == CallsOfItem(i) # {} /\ outcome[i] # "added"

\* C5: a failed insert (conflict or any other cause) never ends the run: the
\* script is never stopped by it, the loop goes on with the next item, and a
\* run that ends normally has processed every fetched item.
C5_FailureDoesNotAbort ==
    \A i \in 1..Len(outcome) :
        InsertFailed(i) =>
            /\ pc = "crashed" => i < Len(outcome)
            /\ pc = "loop" => idx = Len(outcome) + 1 /\ idx <= Len(assignments)
            /\ pc = "done" => Len(outcome) = Len(assignments)

\* C5 witness: the insert of the first record failed for another cause than
\* a conflict, the second record was still processed (and met a conflict), and
\* the run ended normally.
C5_Witness ==
    /\ pc = "done"
    /\ outcome = <<"error", "exists">>
    /\ InsertFailed(1) /\ InsertFailed(2)

\* C6: when no credential is obtained, no Canvas fetch and no calendar call
\* is ever issued; and with no usable token.json and no credentials.json the
\* script reports it and ends.
C6_NoCredentialNoWork ==
    /\ "authenticated" \notin log =>
          fetchCalls = 0 /\ calls = <<>> /\ calendar = calendar0
    /\ (pc \notin {"idle", "auth"} /\ tokenFile \in {"absent", "invalid"}
        /\ ~credsFile) =>
          /\ pc = "done"
          /\ {"credentials.json not found", "could not authenticate"} \subseteq log
          /\ fetchCalls = 0 /\ calls = <<>> /\ outcome = <<>>

\* C6 witness: a run with neither token.json nor credentials.json has ended.
C6_Witness ==
    /\ pc = "done"
    /\ tokenFile = "absent" /\ ~credsFile
    /\ "could not authenticate" \in log

\* the GET failed, or its body is empty or is not a list of objects
FetchFailedOrEmpty ==
    \/ response \in Responses \ {"ok"}
    \/ /\ response = "ok"
       /\ \/ assignments = <<>>
          \/ \E i \in 1..Len(assignments) : assignments[i].kind # "object"

\* C7 (as claimed): a failed fetch (network failure, non-2xx status, malformed
\* body) or an empty list makes a run of zero records: no calendar call, the
\* calendar unchanged, and the script ends normally.
C7_FetchFailureIsEmptyRun ==
    FetchFailedOrEmpty =>
        /\ pc = "done"
        /\ calls = <<>> /\ outcome = <<>>
        /\ calendar = calendar0

Lower(c) == CASE c = "A" -> "a" [] c = "N" -> "n" [] OTHER -> c
IsAlnum(c) == c # "-"

\* lowercase, then drop what is not alphanumeric
Normalize(s) == SelectSeq([k \in 1..Len(s) |-> Lower(s[k])], IsAlnum)

\* the record an API call was issued for
RecordOf(k) == assignments[calls[k].item]

Instant(t) ==
    t.day * 24 + t.hour - (IF t.tz = "-05:00" THEN 0 - 5 ELSE 0)

\* C9: every event body sent ends at the record's due_at and starts exactly
\* one hour before it.
C9_OneHourWindow ==
    \A k \in 1..Len(calls) :
        /\ Instant(calls[k].body.end.dateTime) = Instant(RecordOf(k).due_at)
        /\ Instant(calls[k].body.end.dateTime)
             - Instant(calls[k].body.start.dateTime) = 1

\* C9 witness: an event was sent for a record due at midnight, so its start
\* lies on the day before; another for a due date with a UTC offset.
C9_Witness ==
    /\ Len(calls) = 2
    /\ calls[1].body.end.dateTime.hour = 0
    /\ calls[1].body.start.dateTime.day < calls[1].body.end.dateTime.day
    /\ RecordOf(2).due_at.tz = "-05:00"

\* C10: no step of any run removes an event_id from the calendar.
C10_NeverRemoves ==
    [][ \A e \in calendar : \E f \in calendar' : f.id = e.id ]_vars

\* C10 witness: a later run over records that no longer include the source of
\* an event has completed, and the stale event is still in the calendar.
C10_Witness ==
    /\ run = 2 /\ pc = "done" /\ "complete" \in log
    /\ \E e \in calendar0 :
          /\ e \in calendar
          /\ \A i \in 1..Len(assignments) :
                Dated(assignments[i]) /\ EventId(assignments[i]) # e.id

\* C11 (as claimed): every record processed in a run ends in exactly one of
\* skipped (no due date), created, updated, failed; at most one insert and at
\* most one update is issued for it; and a run that ends has left no fetched
\* record pending.
C11_OneTerminalOutcome ==
    /\ \A i \in 1..Len(outcome) :
          assignments[i].kind = "object" =>
              /\ outcome[i] \in {"skipped", "added", "updated", "error"}
              /\ Cardinality({k \in CallsOfItem(i) : calls[k].op = "insert"}) <= 1
              /\ Cardinality({k \in CallsOfItem(i) : calls[k].op = "update"}) <= 1
    /\ (pc = "done" /\ assignments # <<>>) => Len(outcome) = Len(assignments)

\* C12: calendar calls are issued one at a time and in the order of the
\* fetched list: a step issues at most one call, and it is for the first item
\* without outcome, which gets its outcome in that same step.
C12_Sequential ==
    [][ Len(calls') > Len(calls) =>
          /\ Len(calls') = Len(calls) + 1
          /\ SubSeq(calls', 1, Len(calls)) = calls
          /\ calls'[Len(calls')].item = Len(outcome) + 1
          /\ Len(outcome') = Len(outcome) + 1 ]_vars

\* C12 witness: two calls were issued in a run, for the first and then for
\* the second fetched record.
C12_Witness ==
    /\ Len(calls) = 2
    /\ calls[1].item = 1 /\ calls[2].item = 2
    /\ Len(outcome) = 2

\* C13: get_google_creds ends with a credential or with None (or raises);
\* a credential obtained by a refresh or by the interactive flow has been
\* written to token.json, exactly once, when main goes on; a stored token
\* that is valid is returned without token.json being written; and without a
\* credential token.json is left as it was.
C13_TokenPersisted ==
    [][ pc = "auth" =>
          /\ pc' \in {"fetch", "done", "crashed"}
          /\ pc' = "fetch" =>
               /\ tokenFile' = "valid"
               /\ tokenFile = "valid" => tokenWrites' = tokenWrites
               /\ tokenFile # "valid" => tokenWrites' = tokenWrites + 1
          /\ pc' # "fetch" =>
               /\ tokenFile' = tokenFile /\ tokenFile # "valid"
               /\ tokenWrites' = tokenWrites ]_vars

\* C13 witness: without credentials.json, an expired token was refreshed and
\* saved, and main went on to the fetch.
C13_Witness ==
    /\ pc = "fetch"
    /\ ~credsFile
    /\ tokenFile = "valid" /\ tokenWrites = 1

\* C14 (as claimed): two records with different ids, or one without id and
\* any other record, get different event_ids, so the insert of one is never
\* refused because of the other.
C14_DistinctIdsDistinctEvents ==
    /\ \A k1, k2 \in 1..Len(calls) :
          ( /\ k1 # k2
            /\ \/ RecordOf(k1).id # RecordOf(k2).id
               \/ RecordOf(k1).id = Missing /\ RecordOf(k1) # RecordOf(k2) )
          => calls[k1].body.id # calls[k2].body.id
    /\ \A i \in 1..Len(outcome) :
          ( /\ outcome[i] = "exists"
            /\ \A k \in CallsOfItem(i), e \in calendar0 :
                  e.id # calls[k].body.id )
          => \E j \in 1..(i - 1) :
                /\ assignments[j].id = assignments[i].id
                /\ assignments[i].id # Missing

\* str() of the id as the reconciler reads it (None when the key is missing)
Rendered(a) == PyStr(IF a.id = Missing THEN JNull ELSE a.id)

\* C14 (amended): two records whose ids differ as rendered by str() (a
\* missing or null id rendering as "None") get different event_ids, and an
\* insert that is refused within a run, the event not being in the calendar
\* before, comes after a record of that run whose id renders the same.
C14_DistinctRenderingsDistinctEvents ==
    /\ \A k1, k2 \in 1..Len(calls) :
          Rendered(RecordOf(k1)) # Rendered(RecordOf(k2))
          => calls[k1].body.id # calls[k2].body.id
    /\ \A i \in 1..Len(outcome) :
          ( /\ outcome[i] = "exists"
            /\ \A k \in CallsOfItem(i), e \in calendar0 :
                  e.id # calls[k].body.id )
          => \E j \in 1..(i - 1) :
                /\ outcome[j] = "added"
                /\ Rendered(assignments[j]) = Rendered(assignments[i])

\* C14 witness: the events of two records with different ids were both added
\* in one run.
C14_Witness ==
    /\ outcome = <<"added", "added">>
    /\ RecordOf(1).id = JInt(7) /\ RecordOf(2).id = JInt(12)
    /\ Cardinality(calendar) = 2

====
